---- MODULE Spec2Model ----
(***************************************************************************)
(* Light/Dark Mode Switcher for Sketch (script.js, src/unnamed/part_000).  *)
(*                                                                         *)
(* A document is a forest of layers.  A layer may carry a shared style     *)
(* (text style for text layers, layer style otherwise) and, for symbol     *)
(* instances, a symbol master.  The plugin walks the selection (or the     *)
(* page), and repoints styles / symbol masters whose name follows the      *)
(* convention component/mode/variant to the sibling of the other mode.     *)
(*                                                                         *)
(* Names are sequences of tokens: "/" is the separator character, " " a    *)
(* whitespace character, every other token a run of characters holding     *)
(* neither.                                                                *)
(***************************************************************************)
EXTENDS Integers, Sequences, FiniteSets, TLC

\* ------------------------------------------------------------------------
\* Bounds of the model
\* ------------------------------------------------------------------------
NumNodes == 2

MaxNameLen == 5

\* ------------------------------------------------------------------------
\* Constants of script.js
\* ------------------------------------------------------------------------
LIGHT == "light"

DARK == "dark"

MODES == {LIGHT, DARK}

NAMING_SEPARATOR == "/"

\* JavaScript null
Null == "null"

\* ------------------------------------------------------------------------
\* String primitives used by the name codec
\* ------------------------------------------------------------------------
SPACE == " "

\* String.prototype.split(NAMING_SEPARATOR): the pieces between separators
RECURSIVE Split(_)
Split(s) ==
  IF \A i \in 1..Len(s) : s[i] # NAMING_SEPARATOR
  THEN << s >>
  ELSE LET i == CHOOSE k \in 1..Len(s) :
                  /\ s[k] = NAMING_SEPARATOR
                  /\ \A j \in 1..(k-1) : s[j] # NAMING_SEPARATOR
       IN  << SubSeq(s, 1, i-1) >> \o Split(SubSeq(s, i+1, Len(s)))

\* Array.prototype.join(NAMING_SEPARATOR)
RECURSIVE Join(_)
Join(parts) ==
  IF Len(parts) = 0 THEN << >>
  ELSE IF Len(parts) = 1 THEN parts[1]
  ELSE parts[1] \o << NAMING_SEPARATOR >> \o Join(Tail(parts))

\* String.prototype.toLowerCase on one token
LowerToken(t) ==
  CASE t = "LIGHT" -> "light"
    [] t = "Light" -> "light"
    [] t = "DARK"  -> "dark"
    [] t = "Dark"  -> "dark"
    [] OTHER       -> t

ToLowerCase(s) == [i \in 1..Len(s) |-> LowerToken(s[i])]

\* String.prototype.trim: drop leading and trailing whitespace
RECURSIVE TrimLeft(_)
TrimLeft(s) ==
  IF Len(s) > 0 /\ s[1] = SPACE THEN TrimLeft(Tail(s)) ELSE s

RECURSIVE TrimRight(_)
TrimRight(s) ==
  IF Len(s) > 0 /\ s[Len(s)] = SPACE
  THEN TrimRight(SubSeq(s, 1, Len(s)-1)) ELSE s

Trim(s) == TrimRight(TrimLeft(s))

\* ------------------------------------------------------------------------
\* Name codec
\* ------------------------------------------------------------------------
detectCurrentMode_NoLowerCase(name) ==
  LET parts == Split(name) IN
  IF Len(parts) >= 2
  THEN LET modePart == Trim(parts[2]) IN
       IF modePart = << LIGHT >> \/ modePart = << DARK >>
       THEN modePart[1]
       ELSE Null
  ELSE Null

detectCurrentMode(name) ==
  LET parts == Split(name) IN
  IF Len(parts) >= 2
  THEN LET modePart == Trim(ToLowerCase(parts[2])) IN
       IF modePart = << LIGHT >> \/ modePart = << DARK >>
       THEN modePart[1]
       ELSE Null
  ELSE Null

buildTargetName_AlwaysDark(currentName, targetMode) ==
  LET parts == Split(currentName) IN
  IF Len(parts) >= 2
  THEN Join([parts EXCEPT ![2] = << DARK >>])
  ELSE currentName

buildTargetName_FirstSegment(currentName, targetMode) ==
  LET parts == Split(currentName) IN
  IF Len(parts) >= 2
  THEN Join([parts EXCEPT ![1] = << targetMode >>])
  ELSE currentName

buildTargetName(currentName, targetMode) ==
  LET parts == Split(currentName) IN
  IF Len(parts) >= 2
  THEN Join([parts EXCEPT ![2] = << targetMode >>])
  ELSE currentName

\* ------------------------------------------------------------------------
\* Document state
\* ------------------------------------------------------------------------
Nodes == 1..NumNodes

\* layer.class(): MSTextLayer, MSSymbolInstance, a group/artboard, any other
Kinds == {"Container", "TextElement", "ShapeElement", "SymbolInstance"}

VARIABLES
  kind,         \* kind[n]: class of layer n
  layers,       \* layers[n]: ordered children of n; layers[0]: the page's layers
  textStyles,   \* document.sharedTextStyles: names, in catalog order
  layerStyles,  \* document.sharedLayerStyles: names, in catalog order
  symbols,      \* documentData.allSymbols(): names, in catalog order
  styleRef,     \* styleRef[n]: index of the applied shared style, 0 if none
  styleProps,   \* styleProps[n]: 0 = own (manual) properties, k = those of style k
  symbolRef,    \* symbolRef[n]: index of the symbol master, 0 if none
  overrides,    \* overrides[n]: override data of an instance, 0 if none
  selection,    \* context.selection
  fault,        \* the collaborator call that faults, if any
  last,         \* outcome of the last invocation of an entry point
  cName,        \* name codec exercise: the input name
  cMode,        \* name codec exercise: the mode argument
  cOut          \* name codec exercise: the results

docVars == << kind, layers, textStyles, layerStyles, symbols, selection, fault >>

refVars == << styleRef, styleProps, symbolRef, overrides >>

codecVars == << cName, cMode, cOut >>

vars == << kind, layers, textStyles, layerStyles, symbols, styleRef, styleProps,
           symbolRef, overrides, selection, fault, last, cName, cMode, cOut >>

\* The collaborator calls that can fault
NodeSites == {"name", "class", "fromNative", "setStyle", "symbolMaster",
              "setOverrides", "layers"}

TopSites == {"selection", "currentPage", "showMessage"}

NoFault == [site |-> "none", node |-> 0]

Faulty(site, n) == fault.site = site /\ fault.node = n

\* The mutable part of the document, threaded through a walk
Refs == [styleRef |-> styleRef, styleProps |-> styleProps,
         symbolRef |-> symbolRef, overrides |-> overrides]

\* Array.prototype.find / the loop of findSymbolByName: first entry of that name
FindByName_FirstWhenMissing(catalog, name) ==
  IF \E i \in 1..Len(catalog) : catalog[i] = name
  THEN CHOOSE i \in 1..Len(catalog) :
         /\ catalog[i] = name
         /\ \A j \in 1..(i-1) : catalog[j] # name
  ELSE 1

FindByName(catalog, name) ==
  IF \E i \in 1..Len(catalog) : catalog[i] = name
  THEN CHOOSE i \in 1..Len(catalog) :
         /\ catalog[i] = name
         /\ \A j \in 1..(i-1) : catalog[j] # name
  ELSE 0

findSymbolByName(symbolName) == FindByName(symbols, symbolName)

Result_NoSkip(d, sw, sk) == [d |-> d, switched |-> sw, skipped |-> 0]

Result(d, sw, sk) == [d |-> d, switched |-> sw, skipped |-> sk]

\* ------------------------------------------------------------------------
\* switchLayerStyle
\* ------------------------------------------------------------------------
switchLayerStyle_KeepsLayerProperties(d, n, targetMode) ==
  IF Faulty("fromNative", n)
  THEN Result(d, 0, 1)
  ELSE IF kind[n] = "TextElement"
  THEN IF d.styleRef[n] # 0
       THEN LET currentName == textStyles[d.styleRef[n]]
                currentMode == detectCurrentMode(currentName)
            IN  IF currentMode # Null /\ currentMode # targetMode
                THEN LET targetStyleName == buildTargetName(currentName, targetMode)
                         targetStyle == FindByName(textStyles, targetStyleName)
                     IN  IF targetStyle # 0
                         THEN LET d1 == [d EXCEPT !.styleRef[n] = targetStyle] IN
                              IF Faulty("setStyle", n)
                              THEN Result(d1, 0, 1)
                              ELSE Result([d1 EXCEPT !.styleProps[n] = targetStyle], 1, 0)
                         ELSE Result(d, 0, 1)
                ELSE IF currentMode = targetMode
                THEN Result(d, 0, 1)
                ELSE Result(d, 0, 1)
       ELSE Result(d, 0, 1)
  ELSE IF d.styleRef[n] # 0
       THEN LET currentName == layerStyles[d.styleRef[n]]
                currentMode == detectCurrentMode(currentName)
            IN  IF currentMode # Null /\ currentMode # targetMode
                THEN LET targetStyleName == buildTargetName(currentName, targetMode)
                         targetStyle == FindByName(layerStyles, targetStyleName)
                     IN  IF targetStyle # 0
                         THEN LET d1 == [d EXCEPT !.styleRef[n] = targetStyle] IN
                              IF Faulty("setStyle", n)
                              THEN Result(d1, 0, 1)
                              ELSE Result(d1, 1, 0)
                         ELSE Result(d, 0, 1)
                ELSE IF currentMode = targetMode
                THEN Result(d, 0, 1)
                ELSE Result(d, 0, 1)
       ELSE Result(d, 0, 1)

switchLayerStyle_TextInLayerStyles(d, n, targetMode) ==
  IF Faulty("fromNative", n)
  THEN Result(d, 0, 1)
  ELSE IF kind[n] = "TextElement"
  THEN IF d.styleRef[n] # 0
       THEN LET currentName == textStyles[d.styleRef[n]]
                currentMode == detectCurrentMode(currentName)
            IN  IF currentMode # Null /\ currentMode # targetMode
                THEN LET targetStyleName == buildTargetName(currentName, targetMode)
                         targetStyle == FindByName(layerStyles, targetStyleName)
                     IN  IF targetStyle # 0
                         THEN LET d1 == [d EXCEPT !.styleRef[n] = targetStyle] IN
                              IF Faulty("setStyle", n)
                              THEN Result(d1, 0, 1)
                              ELSE Result([d1 EXCEPT !.styleProps[n] = targetStyle], 1, 0)
                         ELSE Result(d, 0, 1)
                ELSE IF currentMode = targetMode
                THEN Result(d, 0, 1)
                ELSE Result(d, 0, 1)
       ELSE Result(d, 0, 1)
  ELSE IF d.styleRef[n] # 0
       THEN LET currentName == layerStyles[d.styleRef[n]]
                currentMode == detectCurrentMode(currentName)
            IN  IF currentMode # Null /\ currentMode # targetMode
                THEN LET targetStyleName == buildTargetName(currentName, targetMode)
                         targetStyle == FindByName(layerStyles, targetStyleName)
                     IN  IF targetStyle # 0
                         THEN LET d1 == [d EXCEPT !.styleRef[n] = targetStyle] IN
                              IF Faulty("setStyle", n)
                              THEN Result(d1, 0, 1)
                              ELSE Result([d1 EXCEPT !.styleProps[n] = targetStyle], 1, 0)
                         ELSE Result(d, 0, 1)
                ELSE IF currentMode = targetMode
                THEN Result(d, 0, 1)
                ELSE Result(d, 0, 1)
       ELSE Result(d, 0, 1)

switchLayerStyle(d, n, targetMode) ==
  IF Faulty("fromNative", n)
  THEN Result(d, 0, 1)                                   \* catch
  ELSE IF kind[n] = "TextElement"
  THEN IF d.styleRef[n] # 0
       THEN LET currentName == textStyles[d.styleRef[n]]
                currentMode == detectCurrentMode(currentName)
            IN  IF currentMode # Null /\ currentMode # targetMode
                THEN LET targetStyleName == buildTargetName(currentName, targetMode)
                         targetStyle == FindByName(textStyles, targetStyleName)
                     IN  IF targetStyle # 0
                         THEN LET d1 == [d EXCEPT !.styleRef[n] = targetStyle] IN
                              IF Faulty("setStyle", n)
                              THEN Result(d1, 0, 1)      \* catch
                              ELSE Result([d1 EXCEPT !.styleProps[n] = targetStyle], 1, 0)
                         ELSE Result(d, 0, 1)
                ELSE IF currentMode = targetMode
                THEN Result(d, 0, 1)
                ELSE Result(d, 0, 1)
       ELSE Result(d, 0, 1)
  ELSE IF d.styleRef[n] # 0
       THEN LET currentName == layerStyles[d.styleRef[n]]
                currentMode == detectCurrentMode(currentName)
            IN  IF currentMode # Null /\ currentMode # targetMode
                THEN LET targetStyleName == buildTargetName(currentName, targetMode)
                         targetStyle == FindByName(layerStyles, targetStyleName)
                     IN  IF targetStyle # 0
                         THEN LET d1 == [d EXCEPT !.styleRef[n] = targetStyle] IN
                              IF Faulty("setStyle", n)
                              THEN Result(d1, 0, 1)      \* catch
                              ELSE Result([d1 EXCEPT !.styleProps[n] = targetStyle], 1, 0)
                         ELSE Result(d, 0, 1)
                ELSE IF currentMode = targetMode
                THEN Result(d, 0, 1)
                ELSE Result(d, 0, 1)
       ELSE Result(d, 0, 1)

\* ------------------------------------------------------------------------
\* switchSymbolMode
\* ------------------------------------------------------------------------
switchSymbolMode_CapturesAfter(d, n, targetMode) ==
  IF Faulty("symbolMaster", n)
  THEN Result(d, 0, 1)
  ELSE IF d.symbolRef[n] = 0
  THEN Result(d, 0, 0)
  ELSE LET currentName == symbols[d.symbolRef[n]]
           currentMode == detectCurrentMode(currentName)
       IN  IF currentMode = targetMode
           THEN Result(d, 0, 1)
           ELSE LET targetSymbolName == buildTargetName(currentName, targetMode)
                    targetSymbol == findSymbolByName(targetSymbolName)
                IN  IF targetSymbol # 0
                    THEN LET d1 == [d EXCEPT !.symbolRef[n] = targetSymbol,
                                             !.overrides[n] = 0]
                             captured == d1.overrides[n]
                         IN  IF captured # 0
                             THEN IF Faulty("setOverrides", n)
                                  THEN Result(d1, 0, 1)
                                  ELSE Result([d1 EXCEPT !.overrides[n] = captured], 1, 0)
                             ELSE Result(d1, 1, 0)
                    ELSE Result(d, 0, 1)

switchSymbolMode(d, n, targetMode) ==
  IF Faulty("symbolMaster", n)
  THEN Result(d, 0, 1)                                   \* catch
  ELSE IF d.symbolRef[n] = 0
  THEN Result(d, 0, 0)
  ELSE LET currentName == symbols[d.symbolRef[n]]
           currentMode == detectCurrentMode(currentName)
       IN  IF currentMode = targetMode
           THEN Result(d, 0, 1)
           ELSE LET targetSymbolName == buildTargetName(currentName, targetMode)
                    targetSymbol == findSymbolByName(targetSymbolName)
                IN  IF targetSymbol # 0
                    THEN LET captured == d.overrides[n]
                             \* changeInstanceToSymbol: the instance now follows the
                             \* new master and holds no override data of its own
                             d1 == [d EXCEPT !.symbolRef[n] = targetSymbol,
                                             !.overrides[n] = 0]
                         IN  IF captured # 0
                             THEN IF Faulty("setOverrides", n)
                                  THEN Result(d1, 0, 1)  \* catch
                                  ELSE Result([d1 EXCEPT !.overrides[n] = captured], 1, 0)
                             ELSE Result(d1, 1, 0)
                    ELSE Result(d, 0, 1)

\* ------------------------------------------------------------------------
\* processCurrentLayer: one layer, no recursion.  thrown: the fault left it.
\* ------------------------------------------------------------------------
Outcome(d, sw, sk, th, st) ==
  [d |-> d, switched |-> sw, skipped |-> sk, thrown |-> th, styleSwitched |-> st]

\* result.switched += symbolResult.switched; result.skipped += symbolResult.skipped
addSymbolResult(styleResult, symbolResult) ==
  Outcome(symbolResult.d,
          styleResult.switched + symbolResult.switched,
          styleResult.skipped + symbolResult.skipped, FALSE,
          styleResult.switched)

\* the symbol is tried only if the style was not switched
trySymbol(styleResult, n, targetMode) ==
  IF styleResult.switched = 0
  THEN IF kind[n] = "SymbolInstance" \/ styleResult.d.symbolRef[n] # 0
       THEN addSymbolResult(styleResult,
                            switchSymbolMode(styleResult.d, n, targetMode))
       ELSE Outcome(styleResult.d, styleResult.switched, styleResult.skipped, FALSE,
               styleResult.switched)
  ELSE Outcome(styleResult.d, styleResult.switched, styleResult.skipped, FALSE,
               styleResult.switched)

processCurrentLayer(d, n, targetMode) ==
  IF Faulty("name", n)
  THEN Outcome(d, 0, 0, TRUE, 0)       \* the catch block reads layer.name() again
  ELSE IF Faulty("class", n)
  THEN Outcome(d, 0, 0, FALSE, 0)      \* catch
  ELSE trySymbol(switchLayerStyle(d, n, targetMode), n, targetMode)

\* ------------------------------------------------------------------------
\* processLayer: a layer and all its children.  The walk threads the
\* references, the per-layer results (res) and the order of the calls of
\* processCurrentLayer (visits).
\* ------------------------------------------------------------------------
Walk(w, sw, sk, th) == [w |-> w, switched |-> sw, skipped |-> sk, thrown |-> th]

StartWalk ==
  [d |-> Refs,
   res |-> [n \in Nodes |-> [switched |-> 0, skipped |-> 0]],
   tally |-> [n \in Nodes |-> [switched |-> 0, skipped |-> 0]],
   styleSwitched |-> [n \in Nodes |-> 0],
   visits |-> << >>]

RECURSIVE processLayer(_, _, _)
RECURSIVE processChildren(_, _, _, _, _, _)

\* result.switched += childResult.switched; ... and on to child i + 1
addChildResult_DropSkipped(childResult, n, i, targetMode, sw, sk) ==
  IF childResult.thrown
  THEN Walk(childResult.w, sw, sk, Faulty("name", n))
  ELSE processChildren(childResult.w, n, i + 1, targetMode,
                       sw + childResult.switched, sk)

addChildResult(childResult, n, i, targetMode, sw, sk) ==
  IF childResult.thrown
  THEN Walk(childResult.w, sw, sk, Faulty("name", n))        \* catch of n
  ELSE processChildren(childResult.w, n, i + 1, targetMode,
                       sw + childResult.switched, sk + childResult.skipped)

processChildren(w, n, i, targetMode, sw, sk) ==
  IF i > Len(layers[n])
  THEN Walk(w, sw, sk, FALSE)
  ELSE addChildResult(processLayer(w, layers[n][i], targetMode),
                      n, i, targetMode, sw, sk)

\* the walk after processCurrentLayer has run on layer n
Processed(w, n, layerResult) ==
  [w EXCEPT !.d = layerResult.d,
            !.visits = Append(@, n),
            !.styleSwitched[n] = layerResult.styleSwitched,
            !.res[n] = [switched |-> layerResult.switched,
                        skipped |-> layerResult.skipped]]

addLayerResult_SkipsFirstChild(w, n, targetMode, layerResult) ==
  IF layerResult.thrown
  THEN Walk(Processed(w, n, layerResult), 0, 0, Faulty("name", n))
  ELSE IF kind[n] = "Container" /\ Faulty("layers", n)
  THEN Walk(Processed(w, n, layerResult),
            layerResult.switched, layerResult.skipped, FALSE)
  ELSE processChildren(Processed(w, n, layerResult), n, 2, targetMode,
                       layerResult.switched, layerResult.skipped)

addLayerResult(w, n, targetMode, layerResult) ==
  IF layerResult.thrown
  THEN Walk(Processed(w, n, layerResult), 0, 0, Faulty("name", n))     \* catch
  ELSE IF kind[n] = "Container" /\ Faulty("layers", n)
  THEN Walk(Processed(w, n, layerResult),
            layerResult.switched, layerResult.skipped, FALSE)         \* catch
  ELSE processChildren(Processed(w, n, layerResult), n, 1, targetMode,
                       layerResult.switched, layerResult.skipped)

\* return result: the tally of layer n and its children
Returned(n, result) ==
  [result EXCEPT !.w.tally[n] = [switched |-> result.switched,
                                 skipped |-> result.skipped]]

processLayer(w, n, targetMode) ==
  Returned(n, addLayerResult(w, n, targetMode,
                             processCurrentLayer(w.d, n, targetMode)))

\* The loop of switchMode and of switchEntirePage over the top-level layers
RECURSIVE processAll(_, _, _, _, _, _)

\* totalSwitched += result.switched; ... and on to layer i + 1
addTotals(result, roots, i, targetMode, sw, sk) ==
  IF result.thrown
  THEN Walk(result.w, sw, sk, TRUE)
  ELSE processAll(result.w, roots, i + 1, targetMode,
                  sw + result.switched, sk + result.skipped)

processAll(w, roots, i, targetMode, sw, sk) ==
  IF i > Len(roots)
  THEN Walk(w, sw, sk, FALSE)
  ELSE addTotals(processLayer(w, roots[i], targetMode),
                 roots, i, targetMode, sw, sk)

\* ------------------------------------------------------------------------
\* findModeInLayer
\* ------------------------------------------------------------------------
RECURSIVE findModeInLayer(_)
RECURSIVE findModeInChildren(_, _)

findModeInChildren(n, i) ==
  IF i > Len(layers[n])
  THEN Null
  ELSE LET childMode == findModeInLayer(layers[n][i]) IN
       IF childMode # Null THEN childMode ELSE findModeInChildren(n, i + 1)

findModeInLayer_StopsAtStyle(n) ==
  IF Faulty("class", n)
  THEN Null
  ELSE LET textMode ==
             IF kind[n] = "TextElement" /\ styleRef[n] # 0
             THEN detectCurrentMode(textStyles[styleRef[n]]) ELSE Null
           \* sharedStyleWithID looks the applied style up among the layer styles
           layerMode ==
             IF kind[n] # "TextElement" /\ styleRef[n] # 0
             THEN detectCurrentMode(layerStyles[styleRef[n]]) ELSE Null
           isSymbolInstance == kind[n] = "SymbolInstance" \/ symbolRef[n] # 0
           symbolMode ==
             IF isSymbolInstance /\ symbolRef[n] # 0 /\ styleRef[n] = 0
             THEN detectCurrentMode(symbols[symbolRef[n]]) ELSE Null
       IN  IF textMode # Null THEN textMode
           ELSE IF layerMode # Null THEN layerMode
           ELSE IF isSymbolInstance /\ Faulty("symbolMaster", n) THEN Null
           ELSE IF symbolMode # Null THEN symbolMode
           ELSE IF kind[n] = "Container" /\ Faulty("layers", n) THEN Null
           ELSE findModeInChildren(n, 1)

findModeInLayer(n) ==
  IF Faulty("class", n)
  THEN Null                                              \* catch
  ELSE LET textMode ==
             IF kind[n] = "TextElement" /\ styleRef[n] # 0
             THEN detectCurrentMode(textStyles[styleRef[n]]) ELSE Null
           \* sharedStyleWithID looks the applied style up among the layer styles
           layerMode ==
             IF kind[n] # "TextElement" /\ styleRef[n] # 0
             THEN detectCurrentMode(layerStyles[styleRef[n]]) ELSE Null
           isSymbolInstance == kind[n] = "SymbolInstance" \/ symbolRef[n] # 0
           symbolMode ==
             IF isSymbolInstance /\ symbolRef[n] # 0
             THEN detectCurrentMode(symbols[symbolRef[n]]) ELSE Null
       IN  IF textMode # Null THEN textMode
           ELSE IF layerMode # Null THEN layerMode
           ELSE IF isSymbolInstance /\ Faulty("symbolMaster", n) THEN Null   \* catch
           ELSE IF symbolMode # Null THEN symbolMode
           ELSE IF kind[n] = "Container" /\ Faulty("layers", n) THEN Null    \* catch
           ELSE findModeInChildren(n, 1)

\* the loop of toggleMode over the selection
RECURSIVE findModeInSelection(_)
findModeInSelection(i) ==
  IF i > Len(selection)
  THEN Null
  ELSE LET detectedMode == findModeInLayer(selection[i]) IN
       IF detectedMode # Null THEN detectedMode ELSE findModeInSelection(i + 1)

\* ------------------------------------------------------------------------
\* Messages
\* ------------------------------------------------------------------------
\* targetMode.charAt(0).toUpperCase() + targetMode.slice(1)
ModeText(targetMode) == IF targetMode = LIGHT THEN "Light" ELSE "Dark"

MsgSelectToSwitch == << "Please select layers to switch modes" >>

MsgSelectToToggle == << "Please select layers to toggle" >>

MsgSwitched(targetMode, sw, sk) ==
  << "Switched to ", ModeText(targetMode), " Mode: ", sw, " changed, ", sk, " skipped" >>

MsgPageSwitched(targetMode, sw, sk) ==
  << "Page switched to ", ModeText(targetMode), " Mode: ", sw, " changed, ", sk, " skipped" >>

MsgError == << "Error: ", "error.message" >>

\* showMessage: a failure of the sink is swallowed
showMessage(message) ==
  [said |-> message, delivered |-> ~Faulty("showMessage", 0)]

NoMessage == [said |-> << >>, delivered |-> FALSE]

\* ------------------------------------------------------------------------
\* Entry points.  Each yields the record kept in last and the new references.
\* ------------------------------------------------------------------------
Done(op, targetMode, msg, escaped, walked, r) ==
  [op |-> op, target |-> targetMode, said |-> msg.said, delivered |-> msg.delivered,
   escaped |-> escaped, walked |-> walked, detected |-> Null,
   switched |-> r.switched, skipped |-> r.skipped,
   res |-> r.w.res, tally |-> r.w.tally, visits |-> r.w.visits,
   styleSwitched |-> r.w.styleSwitched,
   d |-> r.w.d, pre |-> Refs]

NoWalk == Walk(StartWalk, 0, 0, FALSE)

\* the report of switchMode after the loop, or its catch block
reportMode(op, targetMode, r) ==
  IF r.thrown
  THEN Done(op, targetMode, showMessage(MsgError), FALSE, TRUE, r)         \* catch
  ELSE Done(op, targetMode,
            showMessage(MsgSwitched(targetMode, r.switched, r.skipped)),
            FALSE, TRUE, r)

\* switchMode(context, targetMode) where context.selection is sel
switchModeOn(sel, op, targetMode) ==
  IF Faulty("selection", 0)
  THEN Done(op, targetMode, showMessage(MsgError), FALSE, FALSE, NoWalk)   \* catch
  ELSE IF Len(sel) = 0
  THEN Done(op, targetMode, showMessage(MsgSelectToSwitch), FALSE, FALSE, NoWalk)
  ELSE reportMode(op, targetMode,
                  processAll(StartWalk, sel, 1, targetMode, 0, 0))

switchMode_NoEmptyCheck(op, targetMode) ==
  IF Faulty("selection", 0)
  THEN Done(op, targetMode, showMessage(MsgError), FALSE, FALSE, NoWalk)
  ELSE reportMode(op, targetMode,
                  processAll(StartWalk, selection, 1, targetMode, 0, 0))

switchMode(op, targetMode) == switchModeOn(selection, op, targetMode)

toggleTarget_FallbackLight(detectedMode) ==
  IF detectedMode = Null THEN LIGHT ELSE DARK

toggleTarget(detectedMode) == IF detectedMode = LIGHT THEN DARK ELSE DARK

toggleMode ==
  IF Faulty("selection", 0)
  THEN Done("toggleMode", Null, NoMessage, TRUE, FALSE, NoWalk)   \* no try block
  ELSE IF Len(selection) = 0
  THEN Done("toggleMode", Null, showMessage(MsgSelectToToggle), FALSE, FALSE, NoWalk)
  ELSE LET detectedMode == findModeInSelection(1)
           targetMode == toggleTarget(detectedMode)
       IN  [switchMode("toggleMode", targetMode) EXCEPT !.detected = detectedMode]

\* the report of switchEntirePage after the loop, or its catch block
reportPage(op, targetMode, r) ==
  IF r.thrown
  THEN Done(op, targetMode, showMessage(MsgError), FALSE, TRUE, r)         \* catch
  ELSE Done(op, targetMode,
            showMessage(MsgPageSwitched(targetMode, r.switched, r.skipped)),
            FALSE, TRUE, r)

switchEntirePage_WalksSelection(op, targetMode) ==
  IF Faulty("currentPage", 0)
  THEN Done(op, targetMode, showMessage(MsgError), FALSE, FALSE, NoWalk)
  ELSE reportPage(op, targetMode,
                  processAll(StartWalk, selection, 1, targetMode, 0, 0))

switchEntirePage(op, targetMode) ==
  IF Faulty("currentPage", 0)
  THEN Done(op, targetMode, showMessage(MsgError), FALSE, FALSE, NoWalk)   \* catch
  ELSE reportPage(op, targetMode,
                  processAll(StartWalk, layers[0], 1, targetMode, 0, 0))

\* ------------------------------------------------------------------------
\* The documents of the model
\* ------------------------------------------------------------------------
N(a, b, c) == << a, "/", b, "/", c >>

Spaced(a, b, c) == << a, SPACE, "/", SPACE, b, SPACE, "/", SPACE, c >>

TextStylesCatalog ==
  << N("text", "light", "body"), N("text", "dark", "body"),
     N("text", "LIGHT", "body"), N("text", "light", "note") >>

LayerStylesCatalog ==
  << N("bg", "light", "card"), N("bg", "dark", "card"),
     << "plain" >>, N("text", "dark", "note") >>

SymbolsCatalog ==
  << N("button", "light", "primary"), N("button", "dark", "primary"),
     Spaced("button", "light", "primary"), Spaced("button", "dark", "primary"),
     << "logo" >>, N("icon", "hover", "x"), N("icon", "dark", "x") >>

Profile(k, st, sy, ov) == [kind |-> k, style |-> st, symbol |-> sy, ov |-> ov]

\* What a layer can be: its class, applied style, symbol master, override data
Profiles ==
  {Profile("Container", 0, 0, 0)}
    \cup {Profile("TextElement", st, 0, 0) : st \in {0, 1, 3, 4}}
    \cup {Profile("ShapeElement", 1, 0, 0)}
    \cup {Profile("SymbolInstance", 0, sy, 1) : sy \in {1, 3, 5, 6}}
    \cup {Profile("SymbolInstance", 1, 1, 0), Profile("SymbolInstance", 3, 1, 1)}

\* The layers of the documents in which a collaborator call faults
FaultProfiles ==
  {Profile("Container", 0, 0, 0), Profile("TextElement", 1, 0, 0),
   Profile("SymbolInstance", 1, 1, 1)}

\* parent[n] < n; 0 is the page
Parents == {p \in [Nodes -> 0..(NumNodes - 1)] : \A n \in Nodes : p[n] < n}

RECURSIVE ChildrenFrom(_, _, _)
ChildrenFrom(p, m, n) ==
  IF n > NumNodes THEN << >>
  ELSE (IF p[n] = m THEN << n >> ELSE << >>) \o ChildrenFrom(p, m, n + 1)

LayersOf(p) == [m \in 0..NumNodes |-> ChildrenFrom(p, m, 1)]

\* the page's top-level layers, or the last layer alone
Selections(p) == {ChildrenFrom(p, 0, 1), << NumNodes >>}

RootSelection(p) == {ChildrenFrom(p, 0, 1)}

EmptySelection(p) == {<< >>}

SelectionsOf(how, p) ==
  CASE how = "any" -> Selections(p)
    [] how = "roots" -> RootSelection(p)
    [] how = "empty" -> EmptySelection(p)

NodeFaults == {[site |-> s, node |-> n] : s \in NodeSites, n \in Nodes}

TopFaults == {[site |-> s, node |-> 0] : s \in TopSites}

NoInvocation ==
  [op |-> "none", target |-> Null, said |-> << >>, delivered |-> FALSE,
   escaped |-> FALSE, walked |-> FALSE, detected |-> Null,
   switched |-> 0, skipped |-> 0,
   res |-> StartWalk.res, tally |-> StartWalk.tally, visits |-> << >>,
   styleSwitched |-> StartWalk.styleSwitched, pre |-> Refs]

InitDocument(profiles, how) ==
  /\ textStyles = TextStylesCatalog
  /\ layerStyles = LayerStylesCatalog
  /\ symbols = SymbolsCatalog
  /\ \E p \in Parents, prof \in [Nodes -> profiles] :
       /\ \A n \in Nodes : (\E c \in Nodes : p[c] = n) => prof[n].kind = "Container"
       /\ layers = LayersOf(p)
       /\ kind = [n \in Nodes |-> prof[n].kind]
       /\ styleRef = [n \in Nodes |-> prof[n].style]
       /\ styleProps = [n \in Nodes |-> 0]
       /\ symbolRef = [n \in Nodes |-> prof[n].symbol]
       /\ overrides = [n \in Nodes |-> prof[n].ov]
       /\ selection \in SelectionsOf(how, p)
  /\ last = NoInvocation

InitCodecIdle ==
  /\ cName = << >>
  /\ cMode = DARK
  /\ cOut = [op |-> "none", mode |-> Null, built |-> << >>]

Init ==
  /\ \/ InitDocument(Profiles, "any") /\ fault = NoFault
     \/ InitDocument(FaultProfiles, "empty") /\ fault \in {NoFault} \cup TopFaults
     \/ InitDocument(FaultProfiles, "roots") /\ fault \in NodeFaults \cup TopFaults
  /\ InitCodecIdle

\* ------------------------------------------------------------------------
\* Actions: one invocation of an entry point, run to completion
\* ------------------------------------------------------------------------
Invoke_RenamesMaster(r) ==
  /\ last' = [f \in (DOMAIN r) \ {"d"} |-> r[f]]
  /\ styleRef' = r.d.styleRef
  /\ styleProps' = r.d.styleProps
  /\ symbolRef' = r.d.symbolRef
  /\ overrides' = r.d.overrides
  /\ symbols' = IF r.walked
                THEN [symbols EXCEPT ![1] = buildTargetName(@, r.target)]
                ELSE symbols
  /\ UNCHANGED << kind, layers, textStyles, layerStyles, selection, fault, codecVars >>

Invoke(r) ==
  /\ last' = [f \in (DOMAIN r) \ {"d"} |-> r[f]]
  /\ styleRef' = r.d.styleRef
  /\ styleProps' = r.d.styleProps
  /\ symbolRef' = r.d.symbolRef
  /\ overrides' = r.d.overrides
  /\ UNCHANGED << docVars, codecVars >>

SwitchToDark == \E r \in {switchMode("switchToDark", DARK)} : Invoke(r)

SwitchToLight == \E r \in {switchMode("switchToLight", LIGHT)} : Invoke(r)

ToggleMode == \E r \in {toggleMode} : Invoke(r)

SwitchPageToDark == \E r \in {switchEntirePage("switchPageToDark", DARK)} : Invoke(r)

SwitchPageToLight == \E r \in {switchEntirePage("switchPageToLight", LIGHT)} : Invoke(r)

Next ==
  \/ SwitchToDark
  \/ SwitchToLight
  \/ ToggleMode
  \/ SwitchPageToDark
  \/ SwitchPageToLight

Spec == Init /\ [][Next]_vars

\* ------------------------------------------------------------------------
\* The name codec on its own: names of up to MaxNameLen tokens
\* ------------------------------------------------------------------------
Tokens == {NAMING_SEPARATOR, SPACE, "light", "LIGHT", "dark", "btn"}

Names == UNION {[1..k -> Tokens] : k \in 0..MaxNameLen}

InitIdleDocument ==
  /\ textStyles = TextStylesCatalog
  /\ layerStyles = LayerStylesCatalog
  /\ symbols = SymbolsCatalog
  /\ layers = LayersOf([n \in Nodes |-> 0])
  /\ kind = [n \in Nodes |-> "Container"]
  /\ styleRef = [n \in Nodes |-> 0]
  /\ styleProps = [n \in Nodes |-> 0]
  /\ symbolRef = [n \in Nodes |-> 0]
  /\ overrides = [n \in Nodes |-> 0]
  /\ selection = << >>
  /\ fault = NoFault
  /\ last = NoInvocation

InitCodec ==
  /\ InitIdleDocument
  /\ cName \in Names
  /\ cMode \in MODES
  /\ cOut = [op |-> "none", mode |-> Null, built |-> << >>]

DetectMode ==
  /\ cOut' = [op |-> "detect", mode |-> detectCurrentMode(cName), built |-> << >>]
  /\ UNCHANGED << docVars, refVars, last, cName, cMode >>

BuildName ==
  /\ cOut' = [op |-> "build", mode |-> Null, built |-> buildTargetName(cName, cMode)]
  /\ UNCHANGED << docVars, refVars, last, cName, cMode >>

NextCodec ==
  \/ DetectMode
  \/ BuildName

SpecCodec == InitCodec /\ [][NextCodec]_vars

\* ------------------------------------------------------------------------
\* Vocabulary of the properties
\* ------------------------------------------------------------------------
Visited(n) == \E i \in 1..Len(last.visits) : last.visits[i] = n

SelectionOps == {"switchToDark", "switchToLight"}

PageOps == {"switchPageToDark", "switchPageToLight"}

StyleName(n, ref) == IF kind[n] = "TextElement" THEN textStyles[ref] ELSE layerStyles[ref]

Tally(sw, sk) == [switched |-> sw, skipped |-> sk]

Opposite(mode) == IF mode = LIGHT THEN DARK ELSE LIGHT

ParentOf(n) == CHOOSE m \in 0..NumNodes : \E i \in 1..Len(layers[m]) : layers[m][i] = n

RECURSIVE IsUnder(_, _)
IsUnder(n, r) == n = r \/ (ParentOf(n) # 0 /\ IsUnder(ParentOf(n), r))

\* the top-level layers the last invocation walked
WalkedRoots == IF last.op \in PageOps THEN layers[0] ELSE selection

InWalk(n) == \E i \in 1..Len(WalkedRoots) : IsUnder(n, WalkedRoots[i])

CountReport ==
  IF last.op \in PageOps
  THEN MsgPageSwitched(last.target, last.switched, last.skipped)
  ELSE MsgSwitched(last.target, last.switched, last.skipped)

\* ------------------------------------------------------------------------
\* Properties
\* ------------------------------------------------------------------------

\* C1: switchToDark on a selection of one symbol instance with no applied
\* style, a light master and an existing dark master repoints the instance,
\* the layer contributes {switched: 1, skipped: 0} and the report is
\* "Switched to Dark Mode: 1 changed, 0 skipped".
C1_SymbolSwitchReport ==
  \A n \in Nodes :
    ( /\ last.op = "switchToDark"
      /\ fault = NoFault
      /\ selection = << n >>
      /\ kind[n] = "SymbolInstance"
      /\ last.pre.styleRef[n] = 0
      /\ last.pre.symbolRef[n] # 0
      /\ detectCurrentMode(symbols[last.pre.symbolRef[n]]) = LIGHT
      /\ findSymbolByName(buildTargetName(symbols[last.pre.symbolRef[n]], DARK)) # 0 )
    => /\ symbolRef[n] =
            findSymbolByName(buildTargetName(symbols[last.pre.symbolRef[n]], DARK))
       /\ last.res[n] = Tally(1, 0)
       /\ last.said = MsgSwitched(DARK, 1, 0)

\* C2: toggleMode walks with the mode opposite to the first mode detected in
\* the selection.
C2_ToggleOpposite ==
  (last.op = "toggleMode" /\ last.walked /\ last.detected # Null)
    => last.target = Opposite(last.detected)

\* C3: a visited layer with no applied shared style that is no symbol
\* instance contributes {switched: 0, skipped: 0}.
C3_PlainLayerNotCounted ==
  \A n \in Nodes :
    ( /\ last.walked
      /\ fault = NoFault
      /\ Visited(n)
      /\ kind[n] # "SymbolInstance"
      /\ last.pre.styleRef[n] = 0 )
    => last.res[n] = Tally(0, 0)

\* C4: the same selection pass run twice in a row: the second pass switches
\* nothing, changes no reference, and counts exactly one skip for each layer
\* the first pass switched.
C4_SecondPassIdempotent ==
  [][ ( /\ last.op \in SelectionOps
        /\ last.walked
        /\ fault = NoFault
        /\ last'.op = last.op )
      => /\ last'.switched = 0
         /\ refVars' = refVars
         /\ \A n \in Nodes : last.res[n].switched = 1 => last'.res[n].skipped = 1
    ]_vars

\* C5: a fault raised while processing one layer never aborts the walk: every
\* layer of the walk outside the faulting layer's own subtree is still
\* processed and the invocation ends with the count report.
C5_FaultNeverAbortsWalk ==
  (last.walked /\ fault.site \in NodeSites)
    => /\ last.said = CountReport
       /\ \A n \in Nodes : (InWalk(n) /\ ~IsUnder(n, fault.node)) => Visited(n)

\* C6: switchToDark / switchToLight with an empty selection report "Please
\* select layers to switch modes", visit no layer, compute no tally and
\* change no reference.
C6_EmptySelection ==
  (last.op \in SelectionOps /\ Len(selection) = 0 /\ fault.site # "selection")
    => /\ last.said = MsgSelectToSwitch
       /\ last.visits = << >>
       /\ ~last.walked
       /\ last.switched = 0 /\ last.skipped = 0
       /\ Refs = last.pre

C6_Witness ==
  /\ last.op = "switchToDark"
  /\ selection = << >>
  /\ fault = NoFault
  /\ last.said = MsgSelectToSwitch
  /\ last.delivered

\* C7: every selection-based entry point, toggleMode included, reports
\* "Please select layers to switch modes" for an empty selection.
C7_EmptySelectionMessage ==
  ( /\ last.op \in SelectionOps \cup {"toggleMode"}
    /\ Len(selection) = 0
    /\ fault.site # "selection" )
    => last.said = MsgSelectToSwitch

\* C8: no entry point lets a fault escape to its caller.
C8_NoFaultEscapes == ~last.escaped

\* C9 (as claimed): a layer whose style or symbol master name decodes to
\* light, in any spelling of the second segment, that was switched to dark
\* references a resource of the original name after the following light pass.
NameOfStyleRestored(n) ==
  StyleName(n, styleRef'[n]) = StyleName(n, last.pre.styleRef[n])

NameOfSymbolRestored(n) ==
  symbols[symbolRef'[n]] = symbols[last.pre.symbolRef[n]]

DarkThenLight(n) ==
  /\ fault = NoFault
  /\ last.target = DARK
  /\ last.walked
  /\ last.res[n].switched = 1
  /\ last'.target = LIGHT
  /\ last'.walked
  /\ \E i \in 1..Len(last'.visits) : last'.visits[i] = n

C9_RoundTripAnySpelling ==
  [][ \A n \in Nodes :
        /\ ( /\ DarkThenLight(n)
             /\ last.pre.styleRef[n] # 0
             /\ detectCurrentMode(StyleName(n, last.pre.styleRef[n])) = LIGHT )
           => NameOfStyleRestored(n)
        /\ ( /\ DarkThenLight(n)
             /\ last.pre.symbolRef[n] # 0
             /\ last.pre.symbolRef[n] # symbolRef[n]
             /\ detectCurrentMode(symbols[last.pre.symbolRef[n]]) = LIGHT )
           => NameOfSymbolRestored(n)
    ]_vars

\* C9 (amended): the round trip restores the original name when the second
\* segment of the name is exactly "light"; for a symbol master, on an
\* instance whose applied style, if any, does not decode to dark.
CanonicalLight(name) == Len(Split(name)) >= 2 /\ Split(name)[2] = << LIGHT >>

C9_RoundTripCanonical ==
  [][ \A n \in Nodes :
        /\ ( /\ DarkThenLight(n)
             /\ last.pre.styleRef[n] # 0
             /\ CanonicalLight(StyleName(n, last.pre.styleRef[n])) )
           => NameOfStyleRestored(n)
        /\ ( /\ DarkThenLight(n)
             /\ last.pre.symbolRef[n] # 0
             /\ last.pre.symbolRef[n] # symbolRef[n]
             /\ CanonicalLight(symbols[last.pre.symbolRef[n]])
             /\ \/ last.pre.styleRef[n] = 0
                \/ detectCurrentMode(StyleName(n, last.pre.styleRef[n])) # DARK )
           => NameOfSymbolRestored(n)
    ]_vars

\* a shape that a dark pass took from bg/light/card to bg/dark/card and the
\* light pass took back; a symbol instance likewise
C9_Witness ==
  /\ last.target = LIGHT
  /\ fault = NoFault
  /\ \E n \in Nodes :
       /\ kind[n] = "ShapeElement"
       /\ last.pre.styleRef[n] = 2
       /\ last.pre.styleProps[n] = 2
       /\ last.res[n].switched = 1
       /\ styleRef[n] = 1

\* C10: buildTargetName leaves a name of fewer than 2 segments unchanged;
\* otherwise the result has the same number of segments, the second is the
\* new mode and every other segment is the original one.
C10_BuildTargetName ==
  cOut.op = "build"
    => LET parts == Split(cName)
           out == Split(cOut.built)
       IN  IF Len(parts) < 2
           THEN cOut.built = cName
           ELSE /\ Len(out) = Len(parts)
                /\ out[2] = << cMode >>
                /\ \A i \in 1..Len(parts) : i # 2 => out[i] = parts[i]

C10_Witness ==
  /\ cOut.op = "build"
  /\ cName = << "btn", "/", "light", "/", "btn" >>
  /\ cMode = DARK
  /\ cOut.built = << "btn", "/", "dark", "/", "btn" >>

\* C11: detectCurrentMode yields a mode exactly when the name has at least 2
\* segments and the second segment, lower-cased and trimmed, is "light" or
\* "dark" (one mode word in any letter case, surrounded by nothing but
\* whitespace); in every other case it yields null.
ModeWordAt(segment, i, mode) ==
  /\ segment[i] \in {"light", "LIGHT", "Light"} <=> mode = LIGHT
  /\ segment[i] \in {"dark", "DARK", "Dark"} <=> mode = DARK
  /\ \A j \in 1..Len(segment) : j # i => segment[j] = SPACE

SegmentSpells(segment, mode) ==
  \E i \in 1..Len(segment) : ModeWordAt(segment, i, mode)

C11_DetectCurrentMode ==
  cOut.op = "detect"
    => LET parts == Split(cName) IN
       /\ cOut.mode \in MODES \cup {Null}
       /\ \A mode \in MODES :
            cOut.mode = mode <=> (Len(parts) >= 2 /\ SegmentSpells(parts[2], mode))

C11_Witness ==
  /\ cOut.op = "detect"
  /\ cName = << "btn", "/", SPACE, "LIGHT", SPACE >>
  /\ cOut.mode = LIGHT

\* C12: a name written in the space-slash-space form is rewritten to its
\* sibling in the same form: a symbol instance with no applied style whose
\* master is "button / light / primary" is switched by a dark pass to the
\* master "button / dark / primary" that exists in the catalog.
C12_SpacedNameSwitched ==
  \A n \in Nodes :
    ( /\ last.walked
      /\ last.target = DARK
      /\ fault = NoFault
      /\ Visited(n)
      /\ last.pre.styleRef[n] = 0
      /\ last.pre.symbolRef[n] # 0
      /\ symbols[last.pre.symbolRef[n]] = Spaced("button", "light", "primary")
      /\ \E k \in 1..Len(symbols) : symbols[k] = Spaced("button", "dark", "primary") )
    => /\ last.res[n].switched = 1
       /\ symbols[symbolRef[n]] = Spaced("button", "dark", "primary")

\* C13 (as claimed): a visited layer whose applied shared style already
\* decodes to the target mode contributes {switched: 0, skipped: 1} and
\* neither its applied style nor its direct style properties change.
StyleAtTarget(n) ==
  /\ last.walked
  /\ fault = NoFault
  /\ Visited(n)
  /\ last.pre.styleRef[n] # 0
  /\ detectCurrentMode(StyleName(n, last.pre.styleRef[n])) = last.target

StyleUntouched(n) ==
  /\ styleRef[n] = last.pre.styleRef[n]
  /\ styleProps[n] = last.pre.styleProps[n]

InCatalog(catalog, name) == \E k \in 1..Len(catalog) : catalog[k] = name

StyleCatalog(n) == IF kind[n] = "TextElement" THEN textStyles ELSE layerStyles

StyleTargetMissing(n) ==
  /\ last.pre.styleRef[n] # 0
  /\ detectCurrentMode(StyleName(n, last.pre.styleRef[n])) \in MODES \ {last.target}
  /\ ~InCatalog(StyleCatalog(n),
                buildTargetName(StyleName(n, last.pre.styleRef[n]), last.target))

StyleSwitchable(n) ==
  /\ last.pre.styleRef[n] # 0
  /\ detectCurrentMode(StyleName(n, last.pre.styleRef[n])) \in MODES \ {last.target}
  /\ ~StyleTargetMissing(n)

SymbolTargetMissing(n) ==
  /\ ~StyleSwitchable(n)
  /\ last.pre.symbolRef[n] # 0
  /\ detectCurrentMode(symbols[last.pre.symbolRef[n]]) # last.target
  /\ ~InCatalog(symbols, buildTargetName(symbols[last.pre.symbolRef[n]], last.target))

RECURSIVE SumSwitched(_, _)
SumSwitched(f, S) ==
  IF S = {} THEN 0
  ELSE LET m == CHOOSE x \in S : TRUE
       IN  f[m].switched + SumSwitched(f, S \ {m})

RECURSIVE SumSkipped(_, _)
SumSkipped(f, S) ==
  IF S = {} THEN 0
  ELSE LET m == CHOOSE x \in S : TRUE
       IN  f[m].skipped + SumSkipped(f, S \ {m})

Subtree(n) == {m \in Nodes : IsUnder(m, n)}

RootSet == {WalkedRoots[i] : i \in 1..Len(WalkedRoots)}

C15_TallyIsSum ==
  (last.walked /\ fault = NoFault)
    => /\ \A n \in Nodes :
            Visited(n)
              => /\ last.tally[n].switched = SumSwitched(last.res, Subtree(n))
                 /\ last.tally[n].skipped = SumSkipped(last.res, Subtree(n))
       /\ last.switched = SumSwitched(last.tally, RootSet)
       /\ last.skipped = SumSkipped(last.tally, RootSet)
       /\ last.said = CountReport

\* a container counted once itself whose child was switched
C15_Witness ==
  /\ last.walked
  /\ fault = NoFault
  /\ \E n \in Nodes :
       /\ kind[n] = "Container"
       /\ Len(layers[n]) > 0
       /\ Visited(n)
       /\ last.res[n] = Tally(0, 1)
       /\ last.tally[n] = Tally(1, 1)
       /\ last.switched = 1

\* C16: no invocation changes the structure of the document: the kind and
\* the ordered children of every layer and the three catalogs stay as they
\* are, and only the applied style with the direct style properties, or the
\* symbol master with the override data, of layers the invocation visited
\* can differ.
C16_StructurePreserved ==
  [][ /\ kind' = kind
      /\ layers' = layers
      /\ textStyles' = textStyles
      /\ layerStyles' = layerStyles
      /\ symbols' = symbols
      /\ \A n \in Nodes :
           ( \/ styleRef'[n] # styleRef[n]
             \/ styleProps'[n] # styleProps[n]
             \/ symbolRef'[n] # symbolRef[n]
             \/ overrides'[n] # overrides[n] )
           => \E i \in 1..Len(last'.visits) : last'.visits[i] = n
    ]_vars

\* an invocation repointed a visited symbol instance and left a layer
\* outside the selection alone
C16_Witness ==
  /\ last.walked
  /\ \E n, m \in Nodes :
       /\ Visited(n)
       /\ symbolRef[n] # last.pre.symbolRef[n]
       /\ ~Visited(m)
       /\ kind[m] = "Container"

\* C17: toggleMode on a non-empty selection in which no layer, at any depth,
\* has an applied style or a symbol master whose name decodes to a mode runs
\* the walk with target mode dark.
NoModeUnder(n) ==
  /\ last.pre.styleRef[n] # 0
       => detectCurrentMode(StyleName(n, last.pre.styleRef[n])) = Null
  /\ last.pre.symbolRef[n] # 0
       => detectCurrentMode(symbols[last.pre.symbolRef[n]]) = Null

NoModeInSelection ==
  \A n \in Nodes :
    (\E i \in 1..Len(selection) : IsUnder(n, selection[i])) => NoModeUnder(n)

C17_ToggleFallsBackToDark ==
  ( /\ last.op = "toggleMode"
    /\ Len(selection) > 0
    /\ fault.site # "selection"
    /\ NoModeInSelection )
    => /\ last.walked
       /\ last.detected = Null
       /\ last.target = DARK

\* toggleMode on a symbol instance whose master is "logo"
C17_Witness ==
  /\ last.op = "toggleMode"
  /\ last.walked
  /\ last.target = DARK
  /\ NoModeInSelection
  /\ \E n \in Nodes :
       /\ selection = << n >>
       /\ last.pre.symbolRef[n] # 0
       /\ symbols[last.pre.symbolRef[n]] = << "logo" >>

\* C18: a page switch is the selection walk seeded with the top-level layers
\* of the page: whatever the selection is, it leaves the references and
\* yields the counts that switchMode would with the page's layers as the
\* selection, and reports them as "Page switched to {ModeText} Mode:
\* {N} changed, {M} skipped".
OnPageRoots(targetMode) == switchModeOn(layers[0], "switchMode", targetMode)

C18_PageIsSelectionWalkOnRoots ==
  [][ (last'.op \in PageOps /\ fault.site \notin {"selection", "currentPage"})
      => \A r \in {OnPageRoots(last'.target)} :
           /\ styleRef' = r.d.styleRef
           /\ styleProps' = r.d.styleProps
           /\ symbolRef' = r.d.symbolRef
           /\ overrides' = r.d.overrides
           /\ last'.switched = r.switched
           /\ last'.skipped = r.skipped
           /\ last'.visits = r.visits
           /\ fault = NoFault
                => last'.said = MsgPageSwitched(last'.target, r.switched, r.skipped)
    ]_vars

\* a page switch with nothing selected that switched a layer
C18_Witness ==
  /\ last.op = "switchPageToDark"
  /\ selection = << >>
  /\ fault = NoFault
  /\ last.switched >= 1
  /\ last.said = MsgPageSwitched(DARK, last.switched, last.skipped)
  /\ last.delivered

\* C19: after one switchToDark pass over a selected container in whose
\* subtree every light style and every light symbol master has a dark sibling
\* in its catalog, no visited layer keeps an applied style or a symbol master
\* whose name decodes to light, a symbol instance that also carries a shared
\* style included.
IsDarkSibling(name, other) ==
  /\ Len(Split(other)) = Len(Split(name))
  /\ \A i \in 1..Len(Split(name)) : i # 2 => Split(other)[i] = Split(name)[i]
  /\ SegmentSpells(Split(other)[2], DARK)

HasDarkSibling(catalog, name) ==
  \E k \in 1..Len(catalog) : IsDarkSibling(name, catalog[k])

LightRefsHaveSiblings(n) ==
  /\ ( /\ last.pre.styleRef[n] # 0
       /\ detectCurrentMode(StyleName(n, last.pre.styleRef[n])) = LIGHT )
       => HasDarkSibling(StyleCatalog(n), StyleName(n, last.pre.styleRef[n]))
  /\ ( /\ last.pre.symbolRef[n] # 0
       /\ detectCurrentMode(symbols[last.pre.symbolRef[n]]) = LIGHT )
       => HasDarkSibling(symbols, symbols[last.pre.symbolRef[n]])

C19_NestedAllDark ==
  ( /\ last.op = "switchToDark"
    /\ last.walked
    /\ fault = NoFault
    /\ \A i \in 1..Len(selection) : kind[selection[i]] = "Container"
    /\ \A n \in Nodes : Visited(n) => LightRefsHaveSiblings(n) )
    => \A n \in Nodes :
         Visited(n)
           => /\ styleRef[n] # 0
                   => detectCurrentMode(StyleName(n, styleRef[n])) # LIGHT
              /\ symbolRef[n] # 0
                   => detectCurrentMode(symbols[symbolRef[n]]) # LIGHT

\* C20: on the symbol path, an instance whose current master name decodes to
\* no mode is counted as skipped, not as switched, and keeps its master,
\* whatever masters the catalog holds.
C20_NoModeMasterSkipped ==
  \A n \in Nodes :
    ( /\ last.walked
      /\ fault = NoFault
      /\ Visited(n)
      /\ kind[n] = "SymbolInstance"
      /\ ~StyleSwitchable(n)
      /\ last.pre.symbolRef[n] # 0
      /\ detectCurrentMode(symbols[last.pre.symbolRef[n]]) = Null )
    => /\ symbolRef[n] = last.pre.symbolRef[n]
       /\ last.res[n].switched = 0
       /\ last.res[n].skipped >= 1

\* C21: the result of processCurrentLayer for a layer always has skipped in
\* {0, 1}: no layer adds more than one to the skipped count of a pass.
C21_AtMostOneSkipPerLayer ==
  \A n \in Nodes :
    (last.walked /\ fault = NoFault /\ Visited(n)) => last.res[n].skipped \in {0, 1}

\* C22: at most one switch happens per layer per pass: the switched count of
\* a layer is in {0, 1}, and a layer's applied style and its symbol master
\* are never both reassigned by the same pass.
C22_AtMostOneSwitchPerLayer ==
  \A n \in Nodes :
    (last.walked /\ Visited(n))
      => /\ last.res[n].switched \in {0, 1}
         /\ ~ ( /\ styleRef[n] # last.pre.styleRef[n]
                /\ symbolRef[n] # last.pre.symbolRef[n] )

\* C23: whenever the shared-style path records a layer as switched, the
\* layer's applied style is the style of the target name in the catalog of
\* its kind and its direct style properties are those of that style, any
\* manual override gone; for text styles and for layer styles alike.
C23_StyleSwitchSetsBoth ==
  \A n \in Nodes :
    (last.walked /\ Visited(n) /\ last.styleSwitched[n] = 1)
      => /\ styleRef[n] # 0
         /\ StyleName(n, styleRef[n]) =
              buildTargetName(StyleName(n, last.pre.styleRef[n]), last.target)
         /\ \A k \in 1..(styleRef[n] - 1) :
              StyleCatalog(n)[k] # StyleName(n, styleRef[n])
         /\ styleProps[n] = styleRef[n]

\* one pass switched a text layer and a shape whose properties were manual
C23_Witness ==
  /\ last.walked
  /\ \E n, m \in Nodes :
       /\ kind[n] = "TextElement" /\ kind[m] = "ShapeElement"
       /\ last.styleSwitched[n] = 1 /\ last.styleSwitched[m] = 1
       /\ last.pre.styleProps[n] = 0 /\ last.pre.styleProps[m] = 0
       /\ styleProps[n] = styleRef[n] /\ styleProps[m] = styleRef[m]

\* C24: on a successful symbol switch the override data of the instance is
\* captured before the master is reassigned and reapplied after it: the
\* instance follows the target master and holds the override data it held
\* before the pass.
SymbolSwitched(n) ==
  /\ last.walked
  /\ Visited(n)
  /\ last.res[n].switched = 1
  /\ last.styleSwitched[n] = 0

C24_OverridesReapplied ==
  \A n \in Nodes :
    SymbolSwitched(n)
      => /\ symbols[symbolRef[n]] =
              buildTargetName(symbols[last.pre.symbolRef[n]], last.target)
         /\ overrides[n] = last.pre.overrides[n]

\* an instance with override data was moved to another master and kept it
C24_Witness ==
  \E n \in Nodes :
    /\ SymbolSwitched(n)
    /\ symbolRef[n] # last.pre.symbolRef[n]
    /\ last.pre.overrides[n] = 1
    /\ overrides[n] = 1

\* C25: a host fault raised while a layer is processed is counted as exactly
\* one skip for that layer, wherever it is raised: in processCurrentLayer
\* itself (layer.class()), or in the style path (sketch.fromNative, the
\* assignment of the style properties).
FaultRaisedAt(n) ==
  /\ last.walked
  /\ Visited(n)
  /\ fault.node = n
  /\ \/ fault.site \in {"class", "fromNative"}
     \/ fault.site = "setStyle" /\ StyleSwitchable(n)

C25_FaultIsOneSkip ==
  \A n \in Nodes : FaultRaisedAt(n) => last.res[n] = Tally(0, 1)

\* C26: a target is resolved only in the catalog of the layer's own kind: the
\* applied style of a text layer is only ever reassigned to a text style of
\* the target name, that of any other layer to a layer style of the target
\* name, and a symbol master to a master of the target name; a text layer
\* whose target name exists only among the layer styles is left alone.
StyleTargetName(n) == buildTargetName(StyleName(n, last.pre.styleRef[n]), last.target)

OnlyInOtherCatalog(n) ==
  /\ kind[n] = "TextElement"
  /\ last.pre.styleRef[n] # 0
  /\ detectCurrentMode(StyleName(n, last.pre.styleRef[n])) \in MODES \ {last.target}
  /\ InCatalog(layerStyles, StyleTargetName(n))
  /\ ~InCatalog(textStyles, StyleTargetName(n))

C26_ResolvedInOwnCatalog ==
  \A n \in Nodes :
    (last.walked /\ Visited(n))
      => /\ (styleRef[n] # last.pre.styleRef[n] \/ last.styleSwitched[n] = 1)
              => /\ styleRef[n] \in 1..Len(StyleCatalog(n))
                 /\ InCatalog(StyleCatalog(n), StyleTargetName(n))
                 /\ StyleCatalog(n)[styleRef[n]] = StyleTargetName(n)
         /\ symbolRef[n] # last.pre.symbolRef[n]
              => /\ symbolRef[n] \in 1..Len(symbols)
                 /\ symbols[symbolRef[n]] =
                      buildTargetName(symbols[last.pre.symbolRef[n]], last.target)
         /\ OnlyInOtherCatalog(n)
              => /\ styleRef[n] = last.pre.styleRef[n]
                 /\ last.styleSwitched[n] = 0

\* a text layer on text/light/note in a dark pass: text/dark/note is a layer
\* style and no text style, and the layer keeps its style
C26_Witness ==
  /\ last.walked
  /\ last.target = DARK
  /\ \E n \in Nodes :
       /\ Visited(n)
       /\ OnlyInOtherCatalog(n)
       /\ StyleTargetName(n) = N("text", "dark", "note")
       /\ styleRef[n] = last.pre.styleRef[n]

\* C27 (as claimed): mode detection on one layer stops at the first source
\* that applies: toggleMode on a single selected layer whose applied style
\* decodes to no mode, and under which no other layer carries a mode, detects
\* no mode, even if the layer is a symbol instance with a master that decodes
\* to a mode.
StyleWithoutMode(n) ==
  /\ last.pre.styleRef[n] # 0
  /\ detectCurrentMode(StyleName(n, last.pre.styleRef[n])) = Null

ToggledOn(n) ==
  /\ last.op = "toggleMode"
  /\ fault = NoFault
  /\ selection = << n >>
  /\ StyleWithoutMode(n)
  /\ \A m \in Nodes : (m # n /\ IsUnder(m, n)) => NoModeUnder(m)

C27_DetectionStopsAtStyle ==
  \A n \in Nodes : ToggledOn(n) => last.detected = Null

\* C27 (amended): detection on one layer falls through its sources: when the
\* applied style decodes to no mode, the mode of the layer is the one its
\* symbol master decodes to, and is absent only if there is no master or the
\* master decodes to no mode either.
C27_DetectionFallsThrough ==
  \A n \in Nodes :
    ToggledOn(n)
      => last.detected =
           IF last.pre.symbolRef[n] # 0
           THEN detectCurrentMode(symbols[last.pre.symbolRef[n]])
           ELSE Null

\* toggleMode on an instance with the layer style "plain" and a light master
C27_Witness ==
  \E n \in Nodes :
    /\ ToggledOn(n)
    /\ kind[n] = "SymbolInstance"
    /\ layerStyles[last.pre.styleRef[n]] = << "plain" >>
    /\ symbols[last.pre.symbolRef[n]] = N("button", "light", "primary")
    /\ last.detected = LIGHT

\* C28: with no host fault the walk terminates and applies
\* processCurrentLayer exactly once to every top-level layer walked and to
\* every descendant, a layer before its children and the children in their
\* stored order.
Position(n) == CHOOSE i \in 1..Len(last.visits) : last.visits[i] = n

VisitedOnce(n) ==
  /\ Visited(n)
  /\ \A i, j \in 1..Len(last.visits) :
       (last.visits[i] = n /\ last.visits[j] = n) => i = j

\* in the sequence s, everything under s[i] is visited before s[j], i < j
InStoredOrder(s) ==
  \A i, j \in 1..Len(s) :
    i < j => \A x \in Nodes : IsUnder(x, s[i]) => Position(x) < Position(s[j])

RefsDiffer(n) ==
  \/ styleRef[n] # last.pre.styleRef[n]
  \/ styleProps[n] # last.pre.styleProps[n]
  \/ symbolRef[n] # last.pre.symbolRef[n]
  \/ overrides[n] # last.pre.overrides[n]

C29_ChangedOnlyIfSwitched ==
  \A n \in Nodes : (last.walked /\ RefsDiffer(n)) => last.res[n].switched = 1

\* C30: every layer counted as switched in a pass with target mode m ends the
\* pass on a resource (the applied style on the style path, the symbol master
\* on the symbol path) whose name decodes to m and which is another catalog
\* entry than the one it referenced before.
C30_SwitchedMeansTargetMode ==
  \A n \in Nodes :
    (last.walked /\ Visited(n) /\ last.res[n].switched = 1)
      => IF last.styleSwitched[n] = 1
         THEN /\ styleRef[n] # last.pre.styleRef[n]
              /\ detectCurrentMode(StyleName(n, styleRef[n])) = last.target
         ELSE /\ symbolRef[n] # last.pre.symbolRef[n]
              /\ detectCurrentMode(symbols[symbolRef[n]]) = last.target

====
